---------------------------- MODULE Spec2Model ----------------------------
(***************************************************************************)
(* pong3d (src/src/main.rs): two paddles driven by the keyboard through a  *)
(* kinematic character controller, one ball, two walls, two goal sensors.  *)
(*                                                                         *)
(* The repository's own code is setup, player_controller and               *)
(* update_character_controller, registered by main.  Everything that moves *)
(* a body (integration, contacts, restitution, sensor events) is done by   *)
(* the physics plugin that main adds; that part is modelled from section   *)
(* 4 of the specification, with the data (positions, normals, radius,      *)
(* restitution) taken from setup.                                          *)
(***************************************************************************)
EXTENDS Integers, FiniteSets, Sequences, TLC

VARIABLES
    keys,          \* Input<KeyCode>: the set of keys pressed in this frame
    velocity,      \* Paddle.velocity, per team
    translation,   \* KinematicCharacterController.translation, per team
    ran,           \* the Update systems that have run in the current frame
    phase,         \* "idle" (between frames) or "update" (Update schedule running)
    paddlePos,     \* Transform.translation of each paddle (x, y)
    ballPos,       \* Transform.translation of the ball (x, y), in 1/PosUnit
    ballVel,       \* Velocity.linvel of the ball (x, y), in 1/PosUnit per tick
    intersecting,  \* the goals whose sensor the ball currently intersects
    crossings,     \* per goal: how many times the ball has entered its region
    scoringEvents, \* per goal: how many collision events were emitted for it
    wallBounces,   \* wall contacts since the last paddle contact
    baseVel,       \* the ball's velocity right after the last paddle contact (or at spawn)
    lastContact,   \* what the last physics step did to the ball's velocity
    tick           \* physics steps taken

ctlVars == <<keys, velocity, translation, ran, phase>>
worldVars == <<paddlePos, ballPos, ballVel, intersecting, crossings, scoringEvents,
               wallBounces, baseVel, lastContact, tick>>
vars == <<keys, velocity, translation, ran, phase, paddlePos, ballPos,
          ballVel, intersecting, crossings, scoringEvents, wallBounces, baseVel,
          lastContact, tick>>

----------------------------------------------------------------------------
(* Bounds of the model *)

\* physics steps modelled in a run of the ball
MaxTick == 160
\* consecutive wall bounces (with no paddle contact between) modelled exactly
MaxBounces == 2

----------------------------------------------------------------------------
(* Teams, keys, vectors *)

Team == {"Left", "Right"}

KeyCode == {"W", "S", "A", "D", "P", "Semicolon", "L", "Apostrophe"}

Vec3(a, b, c) == [x |-> a, y |-> b, z |-> c]

\* Vec3::default()
Vec3Zero == Vec3(0, 0, 0)

VecAdd(a, b) == Vec3(a.x + b.x, a.y + b.y, a.z + b.z)

\* Option<Vect>
None == [some |-> FALSE, v |-> Vec3Zero]
Some(t) == [some |-> TRUE, v |-> t]

\* variant: the Right arm reads the Left team's Up key
UpKeyShared(team) == "W"

\* the four keys the match arm of a team reads
UpKey(team) == IF team = "Left" THEN "W" ELSE "P"
DownKey(team) == IF team = "Left" THEN "S" ELSE "Semicolon"
LeftKey(team) == IF team = "Left" THEN "A" ELSE "L"
RightKey(team) == IF team = "Left" THEN "D" ELSE "Apostrophe"

TeamKeys(team) == {UpKey(team), DownKey(team), LeftKey(team), RightKey(team)}

\* input.pressed(key)
pressed(input, key) == key \in input

----------------------------------------------------------------------------
(* Input Mapper and Paddle Controller: player_controller *)

\* variant: the Down key is tested first
InputYDownFirst(team, input) ==
    IF pressed(input, DownKey(team)) THEN "Down"
    ELSE IF pressed(input, UpKey(team)) THEN "Up"
    ELSE "None"

\* the if / else-if on the team's two vertical keys
InputY(team, input) ==
    IF pressed(input, UpKey(team)) THEN "Up"
    ELSE IF pressed(input, DownKey(team)) THEN "Down"
    ELSE "None"

\* the if / else-if on the team's two horizontal keys
InputX(team, input) ==
    IF pressed(input, LeftKey(team)) THEN "Left"
    ELSE IF pressed(input, RightKey(team)) THEN "Right"
    ELSE "None"

\* variant: the command is scaled by a paddle speed
YVelocityScaled(y_dir) ==
    CASE y_dir = "None" -> 0
      [] y_dir = "Up" -> 5
      [] y_dir = "Down" -> -5

\* match y_dir { .. paddle.velocity.y = .. }
YVelocity(y_dir) ==
    CASE y_dir = "None" -> 0
      [] y_dir = "Up" -> 1
      [] y_dir = "Down" -> -1

\* match x_dir { .. paddle.velocity.x = .. }
XVelocity(x_dir) ==
    CASE x_dir = "None" -> 0
      [] x_dir = "Left" -> -1
      [] x_dir = "Right" -> 1

\* variant: the vertical command is also written to z
SetVelocityDrift(v, y_dir, x_dir) ==
    [v EXCEPT !.y = YVelocity(y_dir), !.x = XVelocity(x_dir), !.z = YVelocity(y_dir)]

\* the two assignments to paddle.velocity; no other component is written
SetVelocity(v, y_dir, x_dir) ==
    [v EXCEPT !.y = YVelocity(y_dir), !.x = XVelocity(x_dir)]

\* one iteration of the loop over the paddles
PaddleAfterInput(team, v, input) ==
    SetVelocity(v, InputY(team, input), InputX(team, input))

Systems == {"player_controller", "update_character_controller"}

player_controller ==
    /\ phase = "update"
    /\ "player_controller" \notin ran
    /\ velocity' = [t \in Team |-> PaddleAfterInput(t, velocity[t], keys)]
    /\ ran' = ran \cup {"player_controller"}
    /\ UNCHANGED <<keys, translation, phase>>
    /\ UNCHANGED worldVars

----------------------------------------------------------------------------
(* update_character_controller *)

\* match controller.translation { Some(t) => Some(t + v), None => Some(v) }
Accumulate(tr, v) ==
    IF tr.some THEN Some(VecAdd(tr.v, v)) ELSE Some(v)

update_character_controller ==
    /\ phase = "update"
    /\ "update_character_controller" \notin ran
    /\ translation' = [t \in Team |-> Accumulate(translation[t], velocity[t])]
    /\ ran' = ran \cup {"update_character_controller"}
    /\ UNCHANGED <<keys, velocity, phase>>
    /\ UNCHANGED worldVars

----------------------------------------------------------------------------
(* The frame loop of App::run *)

\* A frame starts: the key state is sampled, the Update schedule becomes
\* runnable.  The two systems are added as a plain tuple, with no ordering
\* between them, so either may run first.
BeginFrame(KeyStates) ==
    /\ phase = "idle"
    /\ \E k \in KeyStates : keys' = k
    /\ phase' = "update"
    /\ ran' = {}
    /\ UNCHANGED <<velocity, translation>>
    /\ UNCHANGED worldVars

\* The engine's character-controller pass, after Update: it takes the
\* pending translation of every controller.
CharacterControllerPass ==
    /\ phase = "update"
    /\ ran = Systems
    /\ translation' = [t \in Team |-> None]
    /\ phase' = "idle"
    /\ UNCHANGED <<keys, velocity, ran>>
    /\ UNCHANGED worldVars

----------------------------------------------------------------------------
(* The scene built by setup *)

Vec2(a, b) == [x |-> a, y |-> b]

RECURSIVE Pow(_, _)
Pow(b, n) == IF n = 0 THEN 1 ELSE b * Pow(b, n - 1)

Abs(a) == IF a < 0 THEN -a ELSE a

\* engine steps per second: the step length is the frame time
TickRate == 100

\* Fixed point.  A ball velocity leaving a paddle is a multiple of
\* VelQuantum, so that MaxBounces multiplications by 1.05 stay exact.
VelQuantum == Pow(20, MaxBounces)
PosUnit == 100 * VelQuantum

\* const BALL_SCALE
BALL_SCALE == 3
\* Collider::ball(1.0), scaled by the entity's transform
BallRadius == 1 * BALL_SCALE

\* Collider::cuboid(0.5, 0.5, 0.5) scaled by paddle_scale (4, 12, 5)
PaddleHalf == Vec2(2, 6)

\* paddle1_transform, paddle2_transform
PaddleStart(team) == IF team = "Left" THEN Vec2(-50, 0) ELSE Vec2(50, 0)

\* Transform::from_translation(0, 0, 0) and Velocity::linear(-100, 0, 0)
BallStart == Vec2(0, 0)
BallStartVelocity == Vec2(-100, 0)

\* variants: a perfectly elastic ball; the Min rule
BallRestitutionElastic == 105 - 5
BallCombineRuleMin == "Min"

\* Restitution { coefficient: 1.05, combine_rule: Max }, in hundredths
BallRestitution == 105
BallCombineRule == "Max"
\* the walls are rigid
WallRestitution == 100
PaddleRestitution == 100

Wall == {"bottom", "top"}
\* Transform::from_xyz(0, -40, 0) / (0, 40, 0)
WallPos(w) == IF w = "bottom" THEN Vec2(0, -40) ELSE Vec2(0, 40)
\* Collider::halfspace((0, 1, 0)) / ((0, -1, 0))
WallNormal(w) == IF w = "bottom" THEN Vec2(0, 1) ELSE Vec2(0, -1)

\* the Goal behind the Left paddle and the Goal behind the Right paddle
Goal == {"Left", "Right"}
\* Transform::from_xyz(-60, 0, 0) / (60, 0, 0)
GoalPos(g) == IF g = "Left" THEN Vec2(-60, 0) ELSE Vec2(60, 0)
\* Collider::halfspace((1, 1, 0)) / ((-1, 1, 0)): the direction of the
\* outward normal (halfspace normalises it)
GoalNormal(g) == IF g = "Left" THEN Vec2(1, 1) ELSE Vec2(-1, 1)

\* The ActiveEvents of the ball's and of the goals' colliders: setup inserts
\* none, so no collision event is requested for any pair.
BallActiveEvents == {}
GoalActiveEvents(g) == {}

Dot(a, b) == a.x * b.x + a.y * b.y

----------------------------------------------------------------------------
(* Kinematic Integrator, Ball Dynamics, Collision Resolver, Goal Detector: *)
(* the physics step the plugin runs after Update                           *)

\* division rounding toward zero
Trunc(a, u) == IF a >= 0 THEN a \div u ELSE -((-a) \div u)

Clamp(a, lo, hi) == IF a < lo THEN lo ELSE IF a > hi THEN hi ELSE a

Scale(v, k) == Vec2(v.x * k, v.y * k)

\* combine(e_ball, e_other) under the configured rule, in hundredths
CombineRestitution(rule, a, b) ==
    CASE rule = "Max" -> IF a >= b THEN a ELSE b
      [] rule = "Min" -> IF a <= b THEN a ELSE b
      [] rule = "Average" -> (a + b) \div 2
      [] rule = "Multiply" -> (a * b) \div 100

WallCoefficient == CombineRestitution(BallCombineRule, BallRestitution, WallRestitution)
PaddleCoefficient == CombineRestitution(BallCombineRule, BallRestitution, PaddleRestitution)

\* the paddle advances by the pending translation of its controller
MovePaddle(p, tr) == IF tr.some THEN Vec2(p.x + tr.v.x, p.y + tr.v.y) ELSE p

\* position += velocity * dt: the velocity is kept per step
Integrate(c, v) == Vec2(c.x + v.x, c.y + v.y)

\* signed distance from the ball centre to the wall plane along its normal
WallDistance(w, c) ==
    Dot(Vec2(c.x - WallPos(w).x * PosUnit, c.y - WallPos(w).y * PosUnit), WallNormal(w))

WallTouched(w, c) == WallDistance(w, c) < BallRadius * PosUnit

\* the component of v along the unit normal n becomes -e times itself
ReflectNormal(v, n, e) ==
    LET vn == Dot(v, n)
    IN  Vec2(v.x - Trunc((100 + e) * vn * n.x, 100),
             v.y - Trunc((100 + e) * vn * n.y, 100))

\* a contact acts on a closing velocity only
WallResponse(w, c, v) ==
    IF WallTouched(w, c) /\ Dot(v, WallNormal(w)) < 0
    THEN ReflectNormal(v, WallNormal(w), WallCoefficient)
    ELSE v

\* from the point of the paddle's box closest to the ball centre to the
\* centre, in tenths of a unit; a centre inside the box is pushed out along x
PaddleOffset(c, p) ==
    LET qx == Clamp(c.x, (p.x - PaddleHalf.x) * PosUnit, (p.x + PaddleHalf.x) * PosUnit)
        qy == Clamp(c.y, (p.y - PaddleHalf.y) * PosUnit, (p.y + PaddleHalf.y) * PosUnit)
        d == Vec2(Trunc(c.x - qx, PosUnit \div 10), Trunc(c.y - qy, PosUnit \div 10))
    IN  IF d = Vec2(0, 0)
        THEN Vec2(IF c.x < p.x * PosUnit THEN -1 ELSE 1, 0)
        ELSE d

PaddleTouched(c, p) ==
    Dot(PaddleOffset(c, p), PaddleOffset(c, p)) < (10 * BallRadius) * (10 * BallRadius)

\* the reflection along the contact normal d / |d|, in hundredths of a unit
\* per step
ReflectAlong(v, d, e) ==
    LET w == Vec2(Trunc(v.x, VelQuantum), Trunc(v.y, VelQuantum))
        k == (100 + e) * Dot(w, d)
    IN  Vec2((w.x - Trunc(k * d.x, 100 * Dot(d, d))) * VelQuantum,
             (w.y - Trunc(k * d.y, 100 * Dot(d, d))) * VelQuantum)

PaddleHit(c, p, v) ==
    /\ PaddleTouched(c, p)
    /\ Dot(Vec2(Trunc(v.x, VelQuantum), Trunc(v.y, VelQuantum)), PaddleOffset(c, p)) < 0

PaddleResponse(c, p, v) ==
    IF PaddleHit(c, p, v) THEN ReflectAlong(v, PaddleOffset(c, p), PaddleCoefficient)
    ELSE v

\* ball centre signed distance to the goal plane along its normal <= 0
InGoal(g, c) ==
    Dot(Vec2(c.x - GoalPos(g).x * PosUnit, c.y - GoalPos(g).y * PosUnit), GoalNormal(g)) <= 0

\* a started intersection is reported only if one of the two colliders asks
\* for collision events
EventEmitted(g) == "COLLISION_EVENTS" \in (BallActiveEvents \cup GoalActiveEvents(g))

NoContact == [touch |-> {}, vin |-> Vec2(0, 0), vout |-> Vec2(0, 0),
              paddles |-> {}, prevTouch |-> {}]

PhysicsStep ==
    /\ phase = "update"
    /\ ran = Systems
    /\ tick < MaxTick
    /\ LET moved == [t \in Team |-> MovePaddle(paddlePos[t], translation[t])]
           c == Integrate(ballPos, ballVel)
           touch == {w \in Wall : WallTouched(w, c)}
           bounced == {w \in Wall : WallTouched(w, c) /\ Dot(ballVel, WallNormal(w)) < 0}
           v1 == WallResponse("top", c, WallResponse("bottom", c, ballVel))
           hitL == PaddleHit(c, moved["Left"], v1)
           v2 == PaddleResponse(c, moved["Left"], v1)
           hitR == PaddleHit(c, moved["Right"], v2)
           v3 == PaddleResponse(c, moved["Right"], v2)
           hits == {t \in Team : (t = "Left" /\ hitL) \/ (t = "Right" /\ hitR)}
           now == {g \in Goal : InGoal(g, c)}
           started == now \ intersecting
           bounces == IF hits # {} THEN 0 ELSE wallBounces + Cardinality(bounced)
       IN  /\ bounces <= MaxBounces
           /\ paddlePos' = moved
           /\ ballPos' = c
           /\ ballVel' = v3
           /\ intersecting' = now
           /\ crossings' = [g \in Goal |-> crossings[g] + IF g \in started THEN 1 ELSE 0]
           /\ scoringEvents' = [g \in Goal |->
                  scoringEvents[g] + IF g \in started /\ EventEmitted(g) THEN 1 ELSE 0]
           /\ wallBounces' = bounces
           /\ baseVel' = IF hits # {} THEN v3 ELSE baseVel
           /\ lastContact' = [touch |-> touch, vin |-> ballVel, vout |-> v1,
                              paddles |-> hits, prevTouch |-> lastContact.touch]
    /\ tick' = tick + 1
    /\ translation' = [t \in Team |-> None]
    /\ phase' = "idle"
    /\ UNCHANGED <<keys, velocity, ran>>

----------------------------------------------------------------------------
(* Specifications *)

Init ==
    /\ keys = {}
    /\ velocity = [t \in Team |-> Vec3Zero]
    /\ translation = [t \in Team |-> None]
    /\ ran = {}
    /\ phase = "idle"
    /\ paddlePos = [t \in Team |-> PaddleStart(t)]
    /\ ballPos = Scale(BallStart, PosUnit)
    /\ ballVel = Scale(BallStartVelocity, PosUnit \div TickRate)
    /\ intersecting = {}
    /\ crossings = [g \in Goal |-> 0]
    /\ scoringEvents = [g \in Goal |-> 0]
    /\ wallBounces = 0
    /\ baseVel = Scale(BallStartVelocity, PosUnit \div TickRate)
    /\ lastContact = NoContact
    /\ tick = 0

\* every key state of the eight keys
AllKeyStates == SUBSET KeyCode

\* the Left player holds W or nothing
BallKeyStates == {{}, {"W"}}

\* the controller pipeline under every key state
Next ==
    \/ BeginFrame(AllKeyStates)
    \/ player_controller
    \/ update_character_controller
    \/ CharacterControllerPass

Spec == Init /\ [][Next]_vars

\* the whole tick, ball included, with the Left paddle driven by one key
NextBall ==
    \/ BeginFrame(BallKeyStates)
    \/ player_controller
    \/ update_character_controller
    \/ PhysicsStep

SpecBall == Init /\ [][NextBall]_vars

----------------------------------------------------------------------------
(* Properties *)

UpdateRuns ==
    /\ "update_character_controller" \notin ran
    /\ "update_character_controller" \in ran'

\* what update_character_controller added to the pending translation of t
Added(t) ==
    IF translation[t].some
    THEN Vec3(translation'[t].v.x - translation[t].v.x,
              translation'[t].v.y - translation[t].v.y,
              translation'[t].v.z - translation[t].v.z)
    ELSE translation'[t].v

\* C1. Input tie-break: once player_controller has run in a tick, a team
\* holding both Up and Down has y command +1 and a team holding both Left and
\* Right has x command -1, on every tick.
C1_TieBreak ==
    "player_controller" \in ran =>
        \A t \in Team :
            /\ ({UpKey(t), DownKey(t)} \subseteq keys => velocity[t].y = 1)
            /\ ({LeftKey(t), RightKey(t)} \subseteq keys => velocity[t].x = -1)

C1_Witness ==
    /\ "player_controller" \in ran
    /\ {"W", "S", "L", "Apostrophe"} \subseteq keys
    /\ velocity["Left"].y = 1
    /\ velocity["Right"].x = -1

\* C2. Tick ordering: update_character_controller runs after
\* player_controller in every tick, and the displacement it adds is the
\* command of this tick's key state.
C2_TickOrdering ==
    [][UpdateRuns =>
          /\ "player_controller" \in ran
          /\ \A t \in Team : Added(t) = PaddleAfterInput(t, velocity[t], keys)]_vars

\* C3. Goal region behind the paddles: a ball between the walls and inside a
\* goal's half-space is behind that side's paddle baseline.
C3_GoalBehindPaddle ==
    \A g \in Goal :
        (Abs(ballPos.y) <= 40 * PosUnit /\ InGoal(g, ballPos)) =>
            IF g = "Left" THEN ballPos.x < -50 * PosUnit ELSE ballPos.x > 50 * PosUnit

\* C4. Goal edge-trigger: every crossing of a goal plane has emitted exactly
\* one scoring event, however long the ball stays beyond the plane.
C4_OneEventPerCrossing ==
    \A g \in Goal : scoringEvents[g] = crossings[g]

\* C5. Wall reflection law: in a step where the ball touches a wall, the
\* velocity along the wall normal becomes -1.05 times the incoming one and the
\* tangential velocity is unchanged; -5 against the bottom wall gives +5.25.
C5_WallReflection ==
    /\ \A w \in lastContact.touch :
           /\ 100 * Dot(lastContact.vout, WallNormal(w))
                  = -105 * Dot(lastContact.vin, WallNormal(w))
           /\ lastContact.vout.x = lastContact.vin.x
    /\ ReflectNormal(Vec2(0, -500), WallNormal("bottom"), WallCoefficient) = Vec2(0, 525)

C5_Witness ==
    /\ lastContact.touch = {"bottom"}
    /\ lastContact.vin.y < 0
    /\ lastContact.vin.x # 0
    /\ lastContact.paddles = {}

\* C6. Speed growth: after N consecutive wall bounces with no paddle contact
\* the normal speed is 1.05^N times the one the ball had after its last paddle
\* contact (at spawn, if none); a contact lasts one step and reflects once,
\* and the step does not change the other component.
C6_SpeedGrowth ==
    /\ Abs(baseVel.y) % Pow(20, wallBounces) = 0
    /\ Abs(ballVel.y) = (Abs(baseVel.y) \div Pow(20, wallBounces)) * Pow(21, wallBounces)
    /\ ballVel.x = baseVel.x
    /\ lastContact.touch \cap lastContact.prevTouch = {}

C6_Witness ==
    /\ wallBounces = 2
    /\ ballVel.y # 0

\* C7. Paddle confinement: the command and the pending translation of every
\* paddle have z = 0.
C7_NoZ ==
    \A t \in Team : velocity[t].z = 0 /\ translation[t].v.z = 0

C7_Witness ==
    /\ ran = Systems
    /\ translation["Left"].some
    /\ translation["Left"].v.y = 1
    /\ velocity["Left"].y = -1

\* C8. Team independence: once player_controller has run, the Left paddle's
\* command is what it would be under any other state of the keys P, Semicolon,
\* L, Apostrophe, and the Right paddle's under any other state of W, S, A, D.
C8_TeamIndependence ==
    "player_controller" \in ran =>
        /\ \A o \in SUBSET {"P", "Semicolon", "L", "Apostrophe"} :
               PaddleAfterInput("Left", velocity["Left"],
                                (keys \cap {"W", "S", "A", "D"}) \cup o) = velocity["Left"]
        /\ \A o \in SUBSET {"W", "S", "A", "D"} :
               PaddleAfterInput("Right", velocity["Right"],
                                (keys \cap {"P", "Semicolon", "L", "Apostrophe"}) \cup o)
                   = velocity["Right"]

C8_Witness ==
    /\ "player_controller" \in ran
    /\ {"W", "Semicolon"} \subseteq keys
    /\ velocity["Left"].y = 1
    /\ velocity["Right"].y = -1

\* C9. Position-delta command: once player_controller has run, every
\* paddle's x and y command is -1, 0 or +1, is 0 on an axis with neither key
\* held, and is the same whatever the command was before.
C9_UnitCommand ==
    "player_controller" \in ran =>
        \A t \in Team :
            /\ velocity[t].x \in {-1, 0, 1}
            /\ velocity[t].y \in {-1, 0, 1}
            /\ ({UpKey(t), DownKey(t)} \cap keys = {} => velocity[t].y = 0)
            /\ ({LeftKey(t), RightKey(t)} \cap keys = {} => velocity[t].x = 0)
            /\ \A a, b \in {-1, 0, 1} :
                   PaddleAfterInput(t, Vec3(a, b, 0), keys) = velocity[t]

C9_Witness ==
    /\ ran = {"update_character_controller", "player_controller"}
    /\ translation["Left"].v = Vec3(1, 1, 0)
    /\ keys = {"S"}
    /\ velocity["Left"] = Vec3(0, -1, 0)

\* C10. Translation accumulation: a run of update_character_controller sets
\* the pending translation to the previous one plus the paddle's command (the
\* command alone when none is pending), and a paddle whose keys are all
\* released adds zero.
C10_Accumulation ==
    [][UpdateRuns =>
          \A t \in Team :
              /\ translation'[t] = IF translation[t].some
                                   THEN Some(VecAdd(translation[t].v, velocity[t]))
                                   ELSE Some(velocity[t])
              /\ (TeamKeys(t) \cap keys = {} => Added(t) = Vec3Zero)]_vars

============================================================================
